---- MODULE Spec2Model ----
(***************************************************************************)
(* A model of the multi-tenant inference scheduler: the per-tenant token   *)
(* buckets of TenantManager (tenant_manager.py), the priority queue of     *)
(* heap entries (models.py), the /infer gatekeeper and the batching worker *)
(* (server.py) and the GPU simulator's bookkeeping (gpu_simulator.py).     *)
(*                                                                         *)
(* Time is counted in whole clock ticks and token amounts in whole tokens; *)
(* rate_limit is a whole number of tokens per tick.                        *)
(***************************************************************************)
EXTENDS Integers, Sequences, FiniteSets, TLC

\* ------------------------------------------------------------------ bounds
MaxTime == 2        \* the clock readings are 0..MaxTime
MaxCalls == 4       \* consume calls made directly on the TenantManager
MaxReq == 4         \* requests the /infer endpoint receives
MaxLoad == 17       \* requests of a burst that arrives before the first pop
MaxSnapReq == 2     \* requests received while /metrics is being read
WindowSize == 4     \* window_size the governor is constructed with (50 by default)

TenantIds == {"tenant_a", "tenant_b"}    \* ids that may get registered
UnknownId == "ghost"                     \* an id that is never registered
AllIds == TenantIds \cup {UnknownId}
Configs == {[rate_limit |-> 1, burst_cap |-> 2],    \* TenantConfig values
            [rate_limit |-> 2, burst_cap |-> 3]}
Amounts == {1, 2}                        \* tokens_requested of a request
ReadSkews == {0, 1}  \* ticks between the two time.time() reads of an accept
Bids == {1, 2}                           \* priority_bid of a request
ArrivalTimes == {0, 1}                   \* arrival_time of a request (sent by the client)
OutputTokens == {1}                      \* output_tokens_expected of a request

\* lifespan's default_tenants, scaled down to the token and time units of the model.
DefaultTenants == [tenant_a |-> [rate_limit |-> 2, burst_cap |-> 4],
                   tenant_b |-> [rate_limit |-> 1, burst_cap |-> 2]]

\* A tenant registered for heavy traffic, and the prompt size each tenant's
\* heavy requests have: 16 of the first fill the KV cache exactly, 16 of the
\* second exceed it.
LoadConfig == [rate_limit |-> 1, burst_cap |-> 40000]
LoadTokens == [tenant_a |-> 2048, tenant_b |-> 2049]

\* The bid of the n-th request of the burst: the bids alternate, so that the queue
\* holds entries of both keys, pushed in an order that is not the key order.
LoadBid(n) == IF n % 2 = 0 THEN 1 ELSE 2

MAX_BATCH == 16
MAX_KV_CACHE == 32768

Min(a, b) == IF a <= b THEN a ELSE b

VARIABLES
    now,            \* the reading time.time() returns
    configs,        \* TenantManager._configs : tenant_id -> TenantConfig
    buckets,        \* TenantManager._buckets : tenant_id -> (tokens, last_update)
    locks,          \* keys of TenantManager._locks (a defaultdict)
    \* ---- server.py
    request_queue,  \* the heap (a Python list of HeapEntry)
    lockHeld,       \* queue_lock is held across a suspension (by the worker)
    waiters,        \* queue_lock._waiters: the tasks waiting for it, first come first
    pc,             \* where the worker task is suspended
    batch,          \* the worker's open batch
    tenant_stats,   \* tenant_id -> total output tokens
    total_requests, accepted_requests, rejected_requests,
    gpu,            \* the GPUSimulator's counters
    reply,          \* the latest HTTP response
    \* ---- observers of the server
    outcome,        \* request id -> what consume answered for it
    popped,         \* every heappop so far: the entry and what it left behind
    dispatched,     \* the requests handed to simulate_inference, in order
    done,           \* ids of the requests whose batch the backend completed
    pushedAfterPop, \* an entry was pushed after the worker's first pop
    kvEvent,        \* the latest KV-cache accounting of simulate_inference
    snaps,          \* the /metrics snapshots since the latest batch completed (two at most)
    completed,      \* the batches simulate_inference has returned for, in order
    \* ---- homeostatic_governor.py
    arrival_times,  \* HomeostaticGovernor.arrival_times, a deque(maxlen=window_size)
    current_entropy, \* HomeostaticGovernor.current_entropy
    window,         \* the latest get_adaptive_batch_window call: its history and its answer
    \* ---- observers (history of the run, read only by the properties)
    calls,          \* number of direct consume calls the observers have followed
    clockRegressed, \* the clock has stepped backwards at some point
    admLog,         \* per tenant: the accepted consumes since its registration
    fresh,          \* per tenant: the burst of admits right after registration
    drain           \* per tenant: what followed the last drain of the bucket

tmVars == <<configs, buckets, locks>>
srvVars == <<request_queue, lockHeld, waiters, pc, batch, tenant_stats, total_requests,
            accepted_requests, rejected_requests, gpu, reply,
            outcome, popped, dispatched, done, pushedAfterPop, kvEvent, snaps, completed,
            arrival_times, current_entropy, window>>
govVars == <<arrival_times, current_entropy, window>>
logVars == <<kvEvent, snaps, completed>>
obsVars == <<calls, clockRegressed, admLog, fresh, drain>>
vars == <<now, configs, buckets, locks, request_queue, lockHeld, waiters, pc, batch,
          tenant_stats, total_requests, accepted_requests, rejected_requests, gpu, reply,
          outcome, popped, dispatched, done, pushedAfterPop, kvEvent, snaps, completed,
          arrival_times, current_entropy, window,
          calls, clockRegressed, admLog, fresh, drain>>

\* ------------------------------------------------------- tenant_manager.py

\* Mutants of _refill_bucket: one forgets the cap at burst_cap, one forgets to
\* advance last_update.
RefillBucket_NoCap(t, clk) ==
    [tokens |-> buckets[t].tokens + ((clk - buckets[t].last_update) * configs[t].rate_limit),
     last_update |-> clk]

RefillBucket_StaleStamp(t, clk) ==
    [tokens |-> Min(configs[t].burst_cap,
                    buckets[t].tokens + ((clk - buckets[t].last_update) * configs[t].rate_limit)),
     last_update |-> buckets[t].last_update]

\* _refill_bucket: the (tokens, last_update) pair it stores, read at clock clk.
RefillBucket(t, clk) ==
    LET config == configs[t]
        last_tokens == buckets[t].tokens
        last_update == buckets[t].last_update
        elapsed == clk - last_update
        new_tokens == last_tokens + (elapsed * config.rate_limit)
    IN  [tokens |-> Min(config.burst_cap, new_tokens), last_update |-> clk]

\* Mutant of the comparison: strict.
ConsumeAllowed_Strict(t, amount, clk) == RefillBucket(t, clk).tokens > amount

\* consume: the comparison that decides between accept and reject.
ConsumeAllowed(t, amount, clk) == RefillBucket(t, clk).tokens >= amount

\* Mutant of consume: a rejected call advances last_update but drops the refill.
ConsumeBucket_RejectForfeits(t, amount, clk, clk2) ==
    IF RefillBucket(t, clk).tokens >= amount
    THEN [tokens |-> RefillBucket(t, clk).tokens - amount, last_update |-> clk2]
    ELSE [tokens |-> buckets[t].tokens, last_update |-> clk]

\* consume: the bucket it leaves; clk2 is the second clock read (accept path).
ConsumeBucket(t, amount, clk, clk2) ==
    LET current == RefillBucket(t, clk)
    IN  IF current.tokens >= amount
        THEN [tokens |-> current.tokens - amount, last_update |-> clk2]
        ELSE current

\* A dict with key k set to v (Python's d[k] = v).
DictSet(d, k, v) == [x \in (DOMAIN d) \cup {k} |-> IF x = k THEN v ELSE d[x]]

\* ------------------------------------------------- observers of the buckets
NoFresh == [live |-> FALSE, t0 |-> 0, p |-> 0, n |-> 0, acc |-> 0, late |-> FALSE]
NoDrain == [base |-> "none", t0 |-> 0, rejs |-> 0, lastT |-> 0, lastA |-> 0,
            at |-> 0, p |-> 0, n |-> 0, acc |-> 0]

\* The admits made right after registration with no time elapsing, all of amount p:
\* n of them so far, acc accepted, late = one was accepted after one was rejected.
FreshAfterConsume(f, amount, ok) ==
    IF f.live /\ now = f.t0 /\ (f.n = 0 \/ amount = f.p)
    THEN [f EXCEPT !.p = amount, !.n = f.n + 1,
                   !.acc = f.acc + (IF ok THEN 1 ELSE 0),
                   !.late = f.late \/ (ok /\ f.acc < f.n)]
    ELSE NoFresh

\* What followed the accept that emptied the bucket (stamped t0): first only
\* rejected attempts (rejs of them, the latest of amount lastA at time lastT),
\* then, at the instant "at", a burst of n attempts of amount p, acc accepted.
DrainAfterConsume(d, amount, ok, left, stamp) ==
    LET drained == [NoDrain EXCEPT !.base = "drained", !.t0 = stamp]
    IN  CASE d.base = "burst" /\ amount = d.p ->
                [d EXCEPT !.n = d.n + 1, !.acc = d.acc + (IF ok THEN 1 ELSE 0)]
          [] d.base = "drained" /\ ~ok ->
                [d EXCEPT !.rejs = Min(d.rejs + 1, 2), !.lastT = now, !.lastA = amount]
          [] d.base = "drained" /\ ok ->
                [d EXCEPT !.base = "burst", !.at = now, !.p = amount, !.n = 1, !.acc = 1]
          [] OTHER -> IF ok /\ left = 0 THEN drained ELSE NoDrain

\* A change of the clock reading ends every burst that was under way. The observers
\* follow a run only while its clock has never stepped back.
FreshAfterClock == [t \in TenantIds |-> NoFresh]
DrainAfterClock == [t \in TenantIds |-> IF drain[t].base = "burst" THEN NoDrain ELSE drain[t]]

\* ---------------------------------------------- operations of TenantManager
\* Each operation is given as what it does to the manager and the clock; the
\* callers below add what they do themselves.

\* register_tenant(config): overwrites config and bucket; the bucket starts full.
register_tenant(t, rate, burst) ==
    /\ configs' = DictSet(configs, t, [rate_limit |-> rate, burst_cap |-> burst])
    /\ buckets' = DictSet(buckets, t, [tokens |-> burst, last_update |-> now])
    /\ UNCHANGED <<now, locks>>

\* consume(tenant_id, amount): raises ValueError for an unknown tenant before it
\* touches anything; otherwise refills, compares and stores under the tenant's
\* lock. skew is the time between the clock read of _refill_bucket and the read
\* that stamps an accepted consume. The lock is free whenever consume asks for it
\* (no await inside the critical section), so the whole call is one step.
ConsumeResult(t, amount) ==
    IF t \notin DOMAIN configs THEN "ValueError"
    ELSE IF ConsumeAllowed(t, amount, now) THEN "True" ELSE "False"

consume(t, amount, skew) ==
    IF t \notin DOMAIN configs
    THEN /\ skew = 0
         /\ UNCHANGED <<now, configs, buckets, locks>>
    ELSE /\ now + skew <= MaxTime
         /\ (~ConsumeAllowed(t, amount, now) => skew = 0)
         /\ buckets' = [buckets EXCEPT ![t] = ConsumeBucket(t, amount, now, now + skew)]
         /\ locks' = locks \cup {t}
         /\ now' = now + skew
         /\ UNCHANGED configs

\* get_tenant_status(tenant_id): refills the bucket as a side effect.
get_tenant_status(t) ==
    IF t \notin DOMAIN configs
    THEN UNCHANGED <<now, configs, buckets, locks>>
    ELSE /\ buckets' = [buckets EXCEPT ![t] = RefillBucket(t, now)]
         /\ UNCHANGED <<now, configs, locks>>

\* ------------------------------------ the TenantManager called on its own
RegisterTenant(t, rate, burst) ==
    /\ register_tenant(t, rate, burst)
    /\ admLog' = [admLog EXCEPT ![t] = <<>>]
    /\ fresh' = IF clockRegressed THEN fresh
                ELSE [fresh EXCEPT ![t] = [NoFresh EXCEPT !.live = TRUE, !.t0 = now]]
    /\ drain' = [drain EXCEPT ![t] = NoDrain]
    /\ UNCHANGED <<calls, clockRegressed>>
    /\ UNCHANGED srvVars

Consume(t, amount, skew) ==
    /\ calls < MaxCalls
    /\ calls' = IF clockRegressed THEN calls ELSE calls + 1
    /\ consume(t, amount, skew)
    /\ IF clockRegressed \/ t \notin DOMAIN configs
       THEN UNCHANGED <<admLog, fresh, drain>>
       ELSE LET ok == ConsumeAllowed(t, amount, now)
                left == ConsumeBucket(t, amount, now, now + skew).tokens
                f == [fresh EXCEPT ![t] = FreshAfterConsume(@, amount, ok)]
                d == [drain EXCEPT ![t] = DrainAfterConsume(@, amount, ok, left, now + skew)]
            IN  /\ admLog' = IF ok
                             THEN [admLog EXCEPT ![t] = Append(@, [time |-> now, amount |-> amount])]
                             ELSE admLog
                /\ fresh' = IF skew = 0 THEN f ELSE FreshAfterClock
                /\ drain' = IF skew = 0 THEN d
                            ELSE [x \in TenantIds |-> IF d[x].base = "burst" THEN NoDrain ELSE d[x]]
    /\ UNCHANGED clockRegressed
    /\ UNCHANGED srvVars

GetTenantStatus(t) ==
    /\ get_tenant_status(t)
    /\ UNCHANGED <<calls, clockRegressed, admLog, fresh, drain>>
    /\ UNCHANGED srvVars

\* ------------------------------------------------------------- the clock
\* time.time() is the wall clock: it advances, and it can be set back.
Tick ==
    /\ now < MaxTime
    /\ now' = now + 1
    /\ fresh' = FreshAfterClock
    /\ drain' = DrainAfterClock
    /\ UNCHANGED <<configs, buckets, locks, calls, clockRegressed, admLog>>
    /\ UNCHANGED srvVars

StepBack ==
    /\ now > 0
    /\ now' = now - 1
    /\ clockRegressed' = TRUE
    /\ admLog' = [t \in TenantIds |-> <<>>]
    /\ fresh' = [t \in TenantIds |-> NoFresh]
    /\ drain' = [t \in TenantIds |-> NoDrain]
    /\ calls' = 0
    /\ UNCHANGED <<configs, buckets, locks>>
    /\ UNCHANGED srvVars

\* ------------------------------------------------------------ models.py

\* Mutant of HeapEntry.__lt__: compares the priorities only.
HeapEntryLess_NoTieBreak(a, b) == a.neg_effective_priority < b.neg_effective_priority

\* Mutant of HeapEntry.__lt__: among equal priorities the newer entry is smaller.
HeapEntryLess_NewestFirst(a, b) ==
    IF a.neg_effective_priority # b.neg_effective_priority
    THEN a.neg_effective_priority < b.neg_effective_priority
    ELSE a.arrival_time > b.arrival_time

\* HeapEntry.__lt__
HeapEntryLess(a, b) ==
    IF a.neg_effective_priority # b.neg_effective_priority
    THEN a.neg_effective_priority < b.neg_effective_priority
    ELSE a.arrival_time < b.arrival_time

\* Mutant of make_heap_entry: the priority is not negated.
make_heap_entry_NotNegated(req) ==
    [neg_effective_priority |-> req.priority_bid,
     arrival_time |-> req.arrival_time,
     request |-> req]

\* make_heap_entry: the key is a snapshot of (-effective_priority(), arrival_time);
\* arrival_time.timestamp() keeps the order of the arrival times.
make_heap_entry(req) ==
    [neg_effective_priority |-> 0 - req.priority_bid,
     arrival_time |-> req.arrival_time,
     request |-> req]

\* ---------------------------------------------- heapq (heap[pos] is h[pos + 1])

RECURSIVE SiftDown(_, _, _, _)
\* heapq._siftdown(heap, startpos, pos) with newitem the item being placed.
SiftDown(h, startpos, pos, newitem) ==
    IF pos > startpos
    THEN LET parentpos == (pos - 1) \div 2
             parent == h[parentpos + 1]
         IN  IF HeapEntryLess(newitem, parent)
             THEN SiftDown([h EXCEPT ![pos + 1] = parent], startpos, parentpos, newitem)
             ELSE [h EXCEPT ![pos + 1] = newitem]
    ELSE [h EXCEPT ![pos + 1] = newitem]

RECURSIVE SiftUpLoop(_, _, _)
\* The loop of heapq._siftup: bubbles the smaller child up until a leaf is hit;
\* returns the heap and the position of the hole.
SiftUpLoop(h, pos, endpos) ==
    LET childpos == 2 * pos + 1
        rightpos == childpos + 1
    IN  IF childpos < endpos
        THEN LET c == IF rightpos < endpos /\ ~HeapEntryLess(h[childpos + 1], h[rightpos + 1])
                      THEN rightpos ELSE childpos
             IN  SiftUpLoop([h EXCEPT ![pos + 1] = h[c + 1]], c, endpos)
        ELSE [heap |-> h, pos |-> pos]

\* heapq._siftup(heap, pos)
SiftUp(h, pos) ==
    LET newitem == h[pos + 1]
        r == SiftUpLoop(h, pos, Len(h))
    IN  SiftDown(r.heap, pos, r.pos, newitem)

\* heapq.heappush(heap, item)
heappush(h, item) == SiftDown(Append(h, item), 0, Len(h), item)

\* heapq.heappop(heap), for a heap that is not empty: the item and the heap left.
heappop(h) ==
    LET lastelt == h[Len(h)]
        rest == SubSeq(h, 1, Len(h) - 1)
    IN  IF rest # <<>>
        THEN [item |-> h[1], heap |-> SiftUp([rest EXCEPT ![1] = lastelt], 0)]
        ELSE [item |-> lastelt, heap |-> rest]

\* ------------------------------------------------------- gpu_simulator.py
PREFILL_THROUGHPUT == 1024
DECODE_THROUGHPUT == 128

\* Durations are kept exact, without floating point: a prefill time counts units
\* of 1/PREFILL_THROUGHPUT s, a decode time units of 1/(DECODE_THROUGHPUT *
\* DecodeScale) s, where DecodeScale = lcm(1..16) makes every division by
\* min(batch_size, 16) exact. One tick of the clock is 1/TicksPerSecond s.
DecodeScale == 720720
TicksPerSecond == 128

NoBusyTime == [prefill |-> 0, decode |-> 0]

RECURSIVE MaxPrefillFrom(_, _)
\* max(r.tokens_requested for r in requests), from index i on.
MaxPrefillFrom(b, i) ==
    IF i = Len(b) THEN b[i].tokens_requested
    ELSE LET m == MaxPrefillFrom(b, i + 1)
         IN  IF b[i].tokens_requested >= m THEN b[i].tokens_requested ELSE m

RECURSIVE SumField(_, _)
SumTokens(b) == SumField([i \in DOMAIN b |-> b[i].tokens_requested], Len(b))
SumOutput(b) == SumField([i \in DOMAIN b |-> b[i].output_tokens_expected], Len(b))
SumField(f, n) == IF n = 0 THEN 0 ELSE f[n] + SumField(f, n - 1)

\* estimate_batch_latency: total_latency_seconds = ttft_seconds + tpot_seconds *
\* avg_output_tokens, that is max_prefill / PREFILL_THROUGHPUT +
\* sum(output) / (DECODE_THROUGHPUT * min(batch_size, 16)).
estimate_batch_latency(b) ==
    IF b = <<>> THEN NoBusyTime
    ELSE [prefill |-> MaxPrefillFrom(b, 1),
          decode |-> (SumOutput(b) * DecodeScale) \div Min(Len(b), 16)]

\* A duration in units of 1/(DECODE_THROUGHPUT * DecodeScale) s.
DurationUnits(d) ==
    d.prefill * ((DECODE_THROUGHPUT * DecodeScale) \div PREFILL_THROUGHPUT) + d.decode

\* Mutant of the overflow check: the tokens of the batch are left out of it.
KvOverflow_IgnoresNeed(kv, need) == kv > MAX_KV_CACHE

\* simulate_inference: `if current_kv_cache_tokens + total_tokens > MAX_KV_CACHE`
\* prints the warning and resets the counter.
KvOverflow(kv, need) == kv + need > MAX_KV_CACHE

\* Mutant of the reset: the counter is never reset.
KvAfterCheck_NoReset(kv, need) == kv

\* The value of the counter the tokens of the batch are added to.
KvAfterCheck(kv, need) == IF KvOverflow(kv, need) THEN 0 ELSE kv

NoKvEvent == [before |-> 0, need |-> 0, warned |-> FALSE]

\* One second, and one clock tick, in the unit durations are counted in.
UnitsPerSecond == DECODE_THROUGHPUT * DecodeScale
UnitsPerTick == UnitsPerSecond \div TicksPerSecond

\* Mutant of get_metrics: the idle time is taken backwards.
IdleTime_Reversed(clk) == gpu.last_process_end_time - clk

\* get_metrics: idle_time = current_time - last_process_end_time, in ticks.
IdleTime(clk) == clk - gpu.last_process_end_time

\* GPUSimulator.get_metrics at clock reading clk: total_wall_time is busy + idle,
\* or 1e-6 s while nothing was processed (eps); throughput_tps is
\* total_tokens / total_wall_time if that time is positive, else 0.0. It is kept
\* as tokens (num) per units of wall time (den), or per 1e-6 s (eps).
SimMetrics(clk) ==
    LET busy == gpu.total_busy_time
        eps == busy = NoBusyTime
        wall == IF eps THEN 0 ELSE DurationUnits(busy) + IdleTime(clk) * UnitsPerTick
    IN  [total_tokens_processed |-> gpu.total_tokens_processed,
         total_busy_time |-> busy,
         current_wall_time |-> wall,
         throughput |-> IF eps \/ wall > 0
                        THEN [num |-> gpu.total_tokens_processed, den |-> wall, eps |-> eps]
                        ELSE [num |-> 0, den |-> 1, eps |-> FALSE]]

\* ------------------------------------------------ homeostatic_governor.py
\* The entropy (bits) and the adjustment factor are kept in fixed point, in
\* units of 1/FixedOne; the batch window is counted in microseconds. The
\* governor's clock, time.perf_counter(), only moves forward.
FixedOne == 10000
base_batch_window == 10000

\* num / den rounded to the nearest integer, a tie going to the even neighbour
\* (num >= 0, den > 0).
RoundDiv(num, den) ==
    LET q == num \div den
        r == num % den
    IN  IF 2 * r < den THEN q
        ELSE IF 2 * r > den THEN q + 1
        ELSE IF q % 2 = 0 THEN q ELSE q + 1

\* deque(maxlen=window_size).append: a full deque drops its oldest element.
DequeAppend(d, x) == IF Len(d) < WindowSize THEN Append(d, x) ELSE Append(Tail(d), x)

RECURSIVE Intervals(_, _)
\* calculate_entropy: the inter-arrival intervals from index i on, those of a
\* pair that is out of order left out.
Intervals(a, i) ==
    IF i > Len(a) THEN <<>>
    ELSE IF a[i] >= a[i - 1] THEN <<a[i] - a[i - 1]>> \o Intervals(a, i + 1)
    ELSE Intervals(a, i + 1)

\* round(interval, 3): the 1 ms bin of an interval given in ticks.
Bucket(interval) == RoundDiv(interval * 1000, TicksPerSecond)

\* calculate_entropy: bins, as bucket -> count.
Bins(iv) ==
    [b \in {Bucket(iv[i]) : i \in DOMAIN iv} |->
        Cardinality({i \in DOMAIN iv : Bucket(iv[i]) = b})]

\* math.log2 of a count, in units of 1/FixedOne.
Log2Fixed(n) ==
    CASE n = 1 -> 0     [] n = 2 -> 10000 [] n = 3 -> 15850 [] n = 4 -> 20000
      [] n = 5 -> 23219 [] n = 6 -> 25850 [] n = 7 -> 28074 [] n = 8 -> 30000

RECURSIVE EntropySum(_, _, _)
\* calculate_entropy: `entropy -= p * math.log2(p)` over the bins B, with
\* p = count / total, so that -p * log2(p) = count * (log2 total - log2 count) / total.
EntropySum(bins, B, total) ==
    IF B = {} THEN 0
    ELSE LET b == CHOOSE x \in B : TRUE
         IN  RoundDiv(bins[b] * (Log2Fixed(total) - Log2Fixed(bins[b])), total)
             + EntropySum(bins, B \ {b}, total)

\* calculate_entropy: the value it returns (and stores in current_entropy).
calculate_entropy(a) ==
    IF Len(a) < 2 THEN 0
    ELSE IF Intervals(a, 2) = <<>> THEN 0
    ELSE EntropySum(Bins(Intervals(a, 2)), DOMAIN Bins(Intervals(a, 2)), Len(Intervals(a, 2)))

RECURSIVE ExpSeries(_, _, _)
\* The series of exp(y) from the k-th term on, term being the (k-1)-th term:
\* each term is the previous one times y / k.
ExpSeries(y, k, term) ==
    IF term = 0 \/ k > 12 THEN 0
    ELSE LET mag == RoundDiv((IF term < 0 THEN 0 - term ELSE term) * (IF y < 0 THEN 0 - y ELSE y),
                             k * FixedOne)
             next == IF (term < 0) = (y < 0) THEN mag ELSE 0 - mag
         IN  next + ExpSeries(y, k + 1, next)

\* Mutant of the adjustment: the sign of the exponent is lost.
ExpNeg_Growing(x) == FixedOne + ExpSeries(x, 1, FixedOne)

\* math.exp(-x), x >= 0 and the result in units of 1/FixedOne.
ExpNeg(x) == FixedOne + ExpSeries(0 - x, 1, FixedOne)

\* get_adaptive_batch_window: base_batch_window * exp(-entropy / 5.0).
get_adaptive_batch_window(a) ==
    RoundDiv(base_batch_window * ExpNeg(RoundDiv(calculate_entropy(a), 5)), FixedOne)

\* record_arrival(): appends the clock reading.
RecordArrival ==
    /\ arrival_times' = DequeAppend(arrival_times, now)
    /\ UNCHANGED <<current_entropy, window>>
    /\ UNCHANGED <<now, configs, buckets, locks, request_queue, lockHeld, waiters, pc, batch,
                   tenant_stats, total_requests, accepted_requests, rejected_requests, gpu,
                   reply, outcome, popped, dispatched, done, pushedAfterPop>>
    /\ UNCHANGED obsVars
    /\ UNCHANGED logVars

\* get_adaptive_batch_window(): computes the entropy, stores it, and answers.
GetAdaptiveBatchWindow ==
    /\ current_entropy' = calculate_entropy(arrival_times)
    /\ window' = <<[arrivals |-> arrival_times,
                    value |-> get_adaptive_batch_window(arrival_times)]>>
    /\ UNCHANGED arrival_times
    /\ UNCHANGED <<now, configs, buckets, locks, request_queue, lockHeld, waiters, pc, batch,
                   tenant_stats, total_requests, accepted_requests, rejected_requests, gpu,
                   reply, outcome, popped, dispatched, done, pushedAfterPop>>
    /\ UNCHANGED obsVars
    /\ UNCHANGED logVars

\* ------------------------------------------------------------ server.py
Range(f) == {f[i] : i \in DOMAIN f}

NoEntry == [neg_effective_priority |-> 0, arrival_time |-> 0, request |-> [request_id |-> 0]]
WorkerWaiter == [task |-> "worker", entry |-> NoEntry]
InferWaiter(e) == [task |-> "infer", entry |-> e]

\* The application serves requests between lifespan's startup and its shutdown.
Serving == pc \notin {"off", "cancelled"}

\* asyncio.Lock.acquire returns at once only if the lock is free and nobody waits.
LockFree == ~lockHeld /\ waiters = <<>>

\* One heappop by the worker, with its record for the observers.
PopRecord(r) == [entry |-> r.item, behind |-> Range(r.heap)]

\* Mutant of the drain loop: nothing is drained, the lead goes alone.
DrainLoop_LeadOnly(h, b, log) == [heap |-> h, batch |-> b, log |-> log]

RECURSIVE DrainLoop_OneMore(_, _, _)
\* Mutant of the drain loop: the bound is tested with <=.
DrainLoop_OneMore(h, b, log) ==
    IF Len(b) <= MAX_BATCH /\ h # <<>>
    THEN CHOOSE d \in {DrainLoop_OneMore(r.heap, Append(b, r.item.request), Append(log, PopRecord(r))) :
                        r \in {heappop(h)}} : TRUE
    ELSE [heap |-> h, batch |-> b, log |-> log]

RECURSIVE DrainLoop(_, _, _)
\* worker: while len(batch) < MAX_BATCH and priority_queue: pop and append.
\* Each iteration's heappop is bound as a value, so it is computed once.
DrainLoop(h, b, log) ==
    IF Len(b) < MAX_BATCH /\ h # <<>>
    THEN CHOOSE d \in {DrainLoop(r.heap, Append(b, r.item.request), Append(log, PopRecord(r))) :
                        r \in {heappop(h)}} : TRUE
    ELSE [heap |-> h, batch |-> b, log |-> log]

\* worker, top of the loop with queue_lock acquired and `rest` still waiting for
\* it: an empty queue makes it sleep 1 ms with the lock held; otherwise it pops
\* the lead, releases the lock and sleeps for the batch window.
LoopTopAcquired(rest) ==
    /\ waiters' = rest
    /\ IF request_queue = <<>>
       THEN /\ pc' = "tick"
            /\ lockHeld' = TRUE
            /\ batch' = <<>>
            /\ UNCHANGED <<request_queue, popped>>
       ELSE \E r \in {heappop(request_queue)} :
            /\ pc' = "window"
            /\ lockHeld' = FALSE
            /\ batch' = <<r.item.request>>
            /\ request_queue' = r.heap
            /\ popped' = Append(popped, PopRecord(r))

\* Mutant of the lock hand-over: the worker takes the lock back ahead of the
\* tasks that wait for it.
LoopTop_Barging == LoopTopAcquired(waiters)

\* worker reaching `async with queue_lock` at the top of the loop with the lock
\* released: it goes on at once, or queues up behind the tasks already waiting.
LoopTop ==
    IF waiters = <<>>
    THEN LoopTopAcquired(<<>>)
    ELSE /\ pc' = "wait"
         /\ waiters' = Append(waiters, WorkerWaiter)
         /\ lockHeld' = FALSE
         /\ batch' = <<>>
         /\ UNCHANGED <<request_queue, popped>>

\* lifespan, startup: the default tenants are registered and the worker task is
\* created; requests are served from then on.
Startup ==
    /\ pc = "off"
    /\ pc' = "start"
    /\ configs' = [t \in TenantIds |-> DefaultTenants[t]]
    /\ buckets' = [t \in TenantIds |-> [tokens |-> DefaultTenants[t].burst_cap, last_update |-> now]]
    /\ UNCHANGED <<now, locks, request_queue, lockHeld, waiters, batch, tenant_stats,
                   total_requests, accepted_requests, rejected_requests, gpu, reply,
                   outcome, popped, dispatched, done, pushedAfterPop>>
    /\ UNCHANGED obsVars
    /\ UNCHANGED govVars
    /\ UNCHANGED logVars

\* worker: the task runs for the first time.
WorkerStart ==
    /\ pc = "start"
    /\ LoopTop
    /\ UNCHANGED <<now, configs, buckets, locks, tenant_stats, total_requests,
                   accepted_requests, rejected_requests, gpu, reply,
                   outcome, dispatched, done, pushedAfterPop>>
    /\ UNCHANGED obsVars
    /\ UNCHANGED govVars
    /\ UNCHANGED logVars

\* worker: the 1 ms sleep ends; leaving `async with` releases queue_lock and
\* `continue` asks for it again.
WorkerTickDone ==
    /\ pc = "tick"
    /\ LoopTop
    /\ UNCHANGED <<now, configs, buckets, locks, tenant_stats, total_requests,
                   accepted_requests, rejected_requests, gpu, reply,
                   outcome, dispatched, done, pushedAfterPop>>
    /\ UNCHANGED obsVars
    /\ UNCHANGED govVars
    /\ UNCHANGED logVars

\* worker: it was waiting for queue_lock and its turn has come.
WorkerResume ==
    /\ pc = "wait"
    /\ ~lockHeld
    /\ waiters # <<>>
    /\ Head(waiters).task = "worker"
    /\ LoopTopAcquired(Tail(waiters))
    /\ UNCHANGED <<now, configs, buckets, locks, tenant_stats, total_requests,
                   accepted_requests, rejected_requests, gpu, reply,
                   outcome, dispatched, done, pushedAfterPop>>
    /\ UNCHANGED obsVars
    /\ UNCHANGED govVars
    /\ UNCHANGED logVars

\* worker: the batch window ends; it drains the queue under queue_lock and calls
\* simulate_inference, which accounts the KV cache and sleeps for the latency.
\* queue_lock is free here: it is only ever held across the 1 ms sleep.
WorkerWindowDone ==
    /\ pc = "window"
    /\ LockFree
    /\ \E d \in {DrainLoop(request_queue, batch, <<>>)} :
       \E total_tokens \in {SumTokens(d.batch)} :
       LET kv == gpu.current_kv_cache_tokens
       IN  /\ request_queue' = d.heap
           /\ batch' = d.batch
           /\ popped' = popped \o d.log
           /\ dispatched' = dispatched \o d.batch
           /\ gpu' = [gpu EXCEPT !.current_kv_cache_tokens =
                                        KvAfterCheck(kv, total_tokens) + total_tokens]
           /\ kvEvent' = [before |-> kv, need |-> total_tokens,
                          warned |-> KvOverflow(kv, total_tokens)]
    /\ pc' = "gpu"
    /\ UNCHANGED <<now, configs, buckets, locks, lockHeld, waiters, tenant_stats,
                   total_requests, accepted_requests, rejected_requests, reply,
                   outcome, done, pushedAfterPop, snaps, completed>>
    /\ UNCHANGED obsVars
    /\ UNCHANGED govVars

RECURSIVE StatsAfter_Overwrite(_, _, _)
\* Mutant of the bookkeeping: the entry is assigned, not added to.
StatsAfter_Overwrite(st, b, i) ==
    IF i > Len(b) THEN st
    ELSE StatsAfter_Overwrite(DictSet(st, b[i].tenant_id, b[i].output_tokens_expected), b, i + 1)

\* Mutant of the bookkeeping: tenant_stats is left as it was.
StatsAfter_Stale(st, b, i) == st

RECURSIVE StatsAfter(_, _, _)
\* worker: for req in batch: tenant_stats[req.tenant_id] += output_tokens
StatsAfter(st, b, i) ==
    IF i > Len(b) THEN st
    ELSE LET t == b[i].tenant_id
             old == IF t \in DOMAIN st THEN st[t] ELSE 0
         IN  StatsAfter(DictSet(st, t, old + b[i].output_tokens_expected), b, i + 1)

\* worker: simulate_inference returns: the simulator's counters and tenant_stats
\* are updated and the loop starts over.
WorkerGpuDone ==
    /\ pc = "gpu"
    /\ gpu' = [gpu EXCEPT !.total_batches_processed = @ + 1,
                          !.total_requests_processed = @ + Len(batch),
                          !.total_tokens_processed = @ + SumOutput(batch),
                          !.total_busy_time =
                               [prefill |-> @.prefill + estimate_batch_latency(batch).prefill,
                                decode |-> @.decode + estimate_batch_latency(batch).decode],
                          !.last_process_end_time = now]
    /\ tenant_stats' = StatsAfter(tenant_stats, batch, 1)
    /\ done' = done \cup {batch[i].request_id : i \in DOMAIN batch}
    /\ snaps' = <<>>
    /\ completed' = Append(completed, batch)
    /\ LoopTop
    /\ UNCHANGED <<now, configs, buckets, locks, total_requests,
                   accepted_requests, rejected_requests, reply,
                   outcome, dispatched, pushedAfterPop, kvEvent>>
    /\ UNCHANGED obsVars
    /\ UNCHANGED govVars

\* worker: `await gpu_simulator.simulate_inference(batch)` raises. worker has no
\* try/except, so the exception leaves the `while True` loop and the task ends;
\* nothing awaits worker_task, so nobody is told. The counters and tenant_stats
\* were not updated for the batch, and the server goes on serving.
WorkerGpuFail ==
    /\ pc = "gpu"
    /\ pc' = "failed"
    /\ batch' = <<>>
    /\ UNCHANGED <<now, configs, buckets, locks, request_queue, lockHeld, waiters, tenant_stats,
                   total_requests, accepted_requests, rejected_requests, gpu, reply,
                   outcome, popped, dispatched, done, pushedAfterPop>>
    /\ UNCHANGED obsVars
    /\ UNCHANGED govVars
    /\ UNCHANGED logVars

\* Mutant of the gate: the answer of consume is not looked at.
InferAllowed_Unchecked(res) == TRUE

\* infer: `if not allowed:` on what consume returned.
InferAllowed(res) == res = "True"

\* infer, from `async with queue_lock` on: push, count, answer "queued".
InferPush(e) ==
    /\ request_queue' = heappush(request_queue, e)
    /\ accepted_requests' = accepted_requests + 1
    /\ pushedAfterPop' = (pushedAfterPop \/ popped # <<>>)
    /\ reply' = [seq |-> 1 - reply.seq, op |-> "infer", status |-> "queued"]

\* POST /infer with a request of the given fields.
Infer(t, tokens, out, bid, arrival) ==
    /\ Serving
    /\ total_requests' = total_requests + 1
    /\ consume(t, tokens, 0)
    /\ LET req == [request_id |-> total_requests + 1, tenant_id |-> t,
                   tokens_requested |-> tokens, output_tokens_expected |-> out,
                   priority_bid |-> bid, arrival_time |-> arrival]
           res == ConsumeResult(t, tokens)
       IN  /\ outcome' = DictSet(outcome, req.request_id, res)
           /\ CASE res = "ValueError" ->
                     /\ reply' = [seq |-> 1 - reply.seq, op |-> "infer", status |-> "404"]
                     /\ UNCHANGED <<request_queue, waiters, accepted_requests,
                                    rejected_requests, pushedAfterPop>>
                [] res # "ValueError" /\ ~InferAllowed(res) ->
                     /\ rejected_requests' = rejected_requests + 1
                     /\ reply' = [seq |-> 1 - reply.seq, op |-> "infer", status |-> "rejected"]
                     /\ UNCHANGED <<request_queue, waiters, accepted_requests, pushedAfterPop>>
                [] res # "ValueError" /\ InferAllowed(res) /\ LockFree ->
                     /\ InferPush(make_heap_entry(req))
                     /\ UNCHANGED <<waiters, rejected_requests>>
                [] res # "ValueError" /\ InferAllowed(res) /\ ~LockFree ->
                     /\ waiters' = Append(waiters, InferWaiter(make_heap_entry(req)))
                     /\ UNCHANGED <<request_queue, accepted_requests, rejected_requests,
                                    reply, pushedAfterPop>>
    /\ UNCHANGED <<lockHeld, pc, batch, tenant_stats, gpu, popped, dispatched, done>>
    /\ UNCHANGED obsVars
    /\ UNCHANGED govVars
    /\ UNCHANGED logVars

\* infer: it was waiting for queue_lock and its turn has come.
InferResume ==
    /\ ~lockHeld
    /\ waiters # <<>>
    /\ Head(waiters).task = "infer"
    /\ waiters' = Tail(waiters)
    /\ InferPush(Head(waiters).entry)
    /\ UNCHANGED <<now, configs, buckets, locks, lockHeld, pc, batch, tenant_stats,
                   total_requests, rejected_requests, gpu, outcome, popped, dispatched, done>>
    /\ UNCHANGED obsVars
    /\ UNCHANGED govVars
    /\ UNCHANGED logVars

\* POST /tenants/register: register_tenant cannot fail, the answer is "success".
RegisterEndpoint(t, rate, burst) ==
    /\ Serving
    /\ register_tenant(t, rate, burst)
    /\ reply' = [seq |-> 1 - reply.seq, op |-> "register", status |-> "success"]
    /\ UNCHANGED <<request_queue, lockHeld, waiters, pc, batch, tenant_stats, total_requests,
                   accepted_requests, rejected_requests, gpu,
                   outcome, popped, dispatched, done, pushedAfterPop>>
    /\ UNCHANGED obsVars
    /\ UNCHANGED govVars
    /\ UNCHANGED logVars

RECURSIVE StatSum(_, _)
\* get_metrics: sum_x = sum(throughputs), over the keys S of tenant_stats
StatSum(st, S) ==
    IF S = {} THEN 0
    ELSE LET t == CHOOSE x \in S : TRUE IN st[t] + StatSum(st, S \ {t})

RECURSIVE StatSumSq(_, _)
\* get_metrics: sum_x2 = sum(x * x for x in throughputs)
StatSumSq(st, S) ==
    IF S = {} THEN 0
    ELSE LET t == CHOOSE x \in S : TRUE IN st[t] * st[t] + StatSumSq(st, S \ {t})

\* round(num / den, 4) in ten-thousandths (a tie goes to the even neighbour).
Round4(num, den) ==
    LET q == (num * 10000) \div den
        r == (num * 10000) % den
    IN  IF 2 * r < den THEN q
        ELSE IF 2 * r > den THEN q + 1
        ELSE IF q % 2 = 0 THEN q ELSE q + 1

\* get_metrics: Jain's index over tenant_stats.values(), as reported
\* (`round(jains_index, 4)`, here in ten-thousandths); 1.0 while tenant_stats
\* is empty.
JainsIndex(st) ==
    LET n == Cardinality(DOMAIN st)
        sum_x == StatSum(st, DOMAIN st)
        sum_x2 == StatSumSq(st, DOMAIN st)
    IN  IF st = <<>> THEN 10000
        ELSE IF sum_x2 > 0 THEN Round4(sum_x * sum_x, n * sum_x2) ELSE 0

\* What GET /metrics reports at clock reading clk (the cost and the utilization
\* are functions of the throughput, the busy time and the wall time).
Snapshot(clk) ==
    [throughput |-> SimMetrics(clk).throughput,
     total_tokens_processed |-> SimMetrics(clk).total_tokens_processed,
     total_busy_time |-> SimMetrics(clk).total_busy_time,
     throughputs |-> tenant_stats,
     jains_fairness_index |-> JainsIndex(tenant_stats),
     active_tenants_tracked |-> Cardinality(DOMAIN tenant_stats)]

\* GET /metrics: the simulator's lock is never held across a suspension, so the
\* handler runs in one go; it assigns nothing but its response.
GetMetrics ==
    /\ Serving
    /\ reply' = [seq |-> 1 - reply.seq, op |-> "metrics", status |-> "200"]
    /\ snaps' = IF Len(snaps) < 2 THEN Append(snaps, Snapshot(now))
                ELSE <<snaps[2], Snapshot(now)>>
    /\ UNCHANGED <<now, configs, buckets, locks, request_queue, lockHeld, waiters, pc, batch,
                   tenant_stats, total_requests, accepted_requests, rejected_requests, gpu,
                   outcome, popped, dispatched, done, pushedAfterPop, kvEvent, completed>>
    /\ UNCHANGED obsVars
    /\ UNCHANGED govVars

\* GET /tenants/{tenant_id}/status
TenantStatus(t) ==
    /\ Serving
    /\ get_tenant_status(t)
    /\ reply' = [seq |-> 1 - reply.seq, op |-> "status",
                 status |-> IF t \in DOMAIN configs THEN "200" ELSE "404"]
    /\ UNCHANGED <<request_queue, lockHeld, waiters, pc, batch, tenant_stats, total_requests,
                   accepted_requests, rejected_requests, gpu,
                   outcome, popped, dispatched, done, pushedAfterPop>>
    /\ UNCHANGED obsVars
    /\ UNCHANGED govVars
    /\ UNCHANGED logVars

\* lifespan, shutdown: `worker_task.cancel()` raises CancelledError in the worker
\* at the await it is suspended in; worker catches nothing, so the task ends
\* there: leaving `async with` releases queue_lock, a pending acquire is
\* withdrawn, and the open or in-flight batch is lost with the task's frame.
\* The server runs the shutdown once the requests in flight have been answered.
Shutdown ==
    /\ Serving
    /\ \A i \in DOMAIN waiters : waiters[i].task # "infer"
    /\ pc' = "cancelled"
    /\ lockHeld' = FALSE
    /\ waiters' = <<>>
    /\ batch' = <<>>
    /\ UNCHANGED <<now, configs, buckets, locks, request_queue, tenant_stats, total_requests,
                   accepted_requests, rejected_requests, gpu, reply,
                   outcome, popped, dispatched, done, pushedAfterPop>>
    /\ UNCHANGED obsVars
    /\ UNCHANGED govVars
    /\ UNCHANGED logVars

\* ------------------------------------------------------- specifications
Init ==
    /\ now = 0
    /\ configs = <<>>
    /\ buckets = <<>>
    /\ locks = {}
    /\ request_queue = <<>>
    /\ lockHeld = FALSE
    /\ waiters = <<>>
    /\ pc = "off"
    /\ batch = <<>>
    /\ tenant_stats = <<>>
    /\ total_requests = 0
    /\ accepted_requests = 0
    /\ rejected_requests = 0
    /\ gpu = [current_kv_cache_tokens |-> 0, total_batches_processed |-> 0,
              total_requests_processed |-> 0, total_tokens_processed |-> 0,
              total_busy_time |-> NoBusyTime, last_process_end_time |-> 0]
    /\ reply = [seq |-> 0, op |-> "none", status |-> "none"]
    /\ outcome = <<>>
    /\ popped = <<>>
    /\ dispatched = <<>>
    /\ done = {}
    /\ pushedAfterPop = FALSE
    /\ kvEvent = NoKvEvent
    /\ snaps = <<>>
    /\ completed = <<>>
    /\ arrival_times = <<>>
    /\ current_entropy = 0
    /\ window = <<>>
    /\ calls = 0
    /\ clockRegressed = FALSE
    /\ admLog = [t \in TenantIds |-> <<>>]
    /\ fresh = [t \in TenantIds |-> NoFresh]
    /\ drain = [t \in TenantIds |-> NoDrain]

\* The TenantManager on its own: registrations, consumes, status reads, the clock.
BucketNext ==
    \/ \E t \in TenantIds, c \in Configs : RegisterTenant(t, c.rate_limit, c.burst_cap)
    \/ \E t \in TenantIds, a \in Amounts, k \in ReadSkews : Consume(t, a, k)
    \/ \E t \in TenantIds : GetTenantStatus(t)
    \/ Tick
    \/ StepBack

BucketSpec == Init /\ [][BucketNext]_vars

\* The steps of the worker task.
Worker ==
    \/ WorkerStart
    \/ WorkerTickDone
    \/ WorkerResume
    \/ WorkerWindowDone
    \/ WorkerGpuDone

\* The server seen from admission: requests of any tenant, known or not, that
\* differ in nothing else; the worker runs alongside.
Next ==
    \/ Startup
    \/ \E t \in AllIds, o \in OutputTokens : total_requests < MaxReq /\ Infer(t, 1, o, 1, 0)
    \/ InferResume
    \/ \E t \in AllIds : TenantStatus(t)
    \/ Worker

Spec == Init /\ [][Next]_vars

\* The server seen from the queue: requests of one tenant that differ in bid
\* and arrival time; the worker runs alongside.
QueueNext ==
    \/ Startup
    \/ \E o \in OutputTokens, b \in Bids, at \in ArrivalTimes :
            total_requests < MaxReq /\ Infer("tenant_a", 1, o, b, at)
    \/ InferResume
    \/ Worker

QueueSpec == Init /\ [][QueueNext]_vars

\* The server under load: a tenant is registered for heavy traffic and sends
\* requests of one size. The first MaxReq requests arrive at any moment; a
\* longer burst, up to MaxLoad, arrives before the worker's first pop.
LoadOpen(t) ==
    /\ total_requests < MaxLoad
    /\ locks \subseteq {t}
    /\ (total_requests < MaxReq \/ popped = <<>>)

LoadNext ==
    \/ Startup
    \/ \E t \in TenantIds :
            total_requests = 0 /\ RegisterEndpoint(t, LoadConfig.rate_limit, LoadConfig.burst_cap)
    \/ \E t \in TenantIds, o \in OutputTokens :
            LoadOpen(t) /\ Infer(t, LoadTokens[t], o, LoadBid(total_requests), 0)
    \/ InferResume
    \/ Worker

LoadSpec == Init /\ [][LoadNext]_vars

\* The server over its whole life: requests of the registered tenants, the
\* worker, the default tenants registered again through the endpoint, and the
\* shutdown.
OpsNext ==
    \/ Startup
    \/ \E t \in TenantIds, o \in OutputTokens : total_requests < MaxReq /\ Infer(t, 1, o, 1, 0)
    \/ InferResume
    \/ \E t \in TenantIds :
            RegisterEndpoint(t, DefaultTenants[t].rate_limit, DefaultTenants[t].burst_cap)
    \/ Worker
    \/ Shutdown

OpsSpec == Init /\ [][OpsNext]_vars

\* The server seen from /metrics: requests of the registered tenants, the
\* worker, up to two snapshots between two batch completions, and the clock
\* moving forward.
MetricsNext ==
    \/ Startup
    \/ \E t \in TenantIds, o \in OutputTokens : total_requests < MaxSnapReq /\ Infer(t, 1, o, 1, 0)
    \/ InferResume
    \/ Worker
    \/ Len(snaps) < 2 /\ GetMetrics
    \/ Tick

MetricsSpec == Init /\ [][MetricsNext]_vars

\* The event loop runs every task that is ready: a sleep that has ended, a task
\* whose turn for queue_lock has come.
LiveSpec == Init /\ [][Next]_vars /\ WF_vars(Worker) /\ WF_vars(InferResume)

\* The server with a backend whose run can fail; the event loop runs every task
\* that is ready.
FailNext ==
    \/ Startup
    \/ \E t \in TenantIds, o \in OutputTokens : total_requests < MaxReq /\ Infer(t, 1, o, 1, 0)
    \/ InferResume
    \/ Worker
    \/ WorkerGpuFail

FailSpec == Init /\ [][FailNext]_vars /\ WF_vars(Worker) /\ WF_vars(InferResume)

\* The governor on its own: arrivals, reads of the window, the clock.
GovernorNext ==
    \/ RecordArrival
    \/ GetAdaptiveBatchWindow
    \/ Tick

GovernorSpec == Init /\ [][GovernorNext]_vars

\* =================================================================== claims

RECURSIVE SumAmounts(_, _, _)
SumAmounts(log, i, j) == IF i > j THEN 0 ELSE log[i].amount + SumAmounts(log, i + 1, j)

\* C1: while the clock has only moved forward, every registered tenant's stored
\* token count lies between 0 and its burst_cap, whatever registrations,
\* consumes (accepted or rejected) and status reads have happened.
C1_TokensWithinBurst ==
    ~clockRegressed =>
        \A t \in DOMAIN buckets :
            /\ 0 <= buckets[t].tokens
            /\ buckets[t].tokens <= configs[t].burst_cap

\* C1 witness: a tenant that consumed, and whose bucket a later refill filled
\* up to the cap again.
C1_Witness ==
    \E t \in DOMAIN buckets :
        /\ ~clockRegressed
        /\ admLog[t] # <<>>
        /\ buckets[t].last_update > admLog[t][Len(admLog[t])].time
        /\ buckets[t].tokens = configs[t].burst_cap

\* C2: for consumes made at non-decreasing times, the amounts accepted between
\* any accepted call i and any later accepted call j (both included) sum to at
\* most burst_cap + (time_j - time_i) * rate_limit.
C2_AdmittedWithinRate ==
    ~clockRegressed =>
        \A t \in DOMAIN configs :
            \A i \in 1..Len(admLog[t]) : \A j \in i..Len(admLog[t]) :
                SumAmounts(admLog[t], i, j)
                    <= configs[t].burst_cap
                       + (admLog[t][j].time - admLog[t][i].time) * configs[t].rate_limit

\* C2 witness: the bound is attained over an interval of positive length.
C2_Witness ==
    \E t \in DOMAIN configs :
        \E i \in 1..Len(admLog[t]) : \E j \in i..Len(admLog[t]) :
            /\ admLog[t][j].time > admLog[t][i].time
            /\ SumAmounts(admLog[t], i, j)
                    = configs[t].burst_cap
                      + (admLog[t][j].time - admLog[t][i].time) * configs[t].rate_limit

\* C3: of n admits of equal amount p made right after registration with no time
\* elapsing, exactly min(n, burst_cap div p) are accepted, and no admit is
\* accepted after one was rejected (the accepted ones are the first ones).
C3_FreshBurstAdmits ==
    \A t \in TenantIds :
        (fresh[t].live /\ fresh[t].n > 0) =>
            /\ fresh[t].acc = Min(fresh[t].n, configs[t].burst_cap \div fresh[t].p)
            /\ ~fresh[t].late

\* C3 witness: n * p > burst_cap with a remainder: some admits accepted, a later
\* one rejected, tokens left over.
C3_Witness ==
    \E t \in TenantIds :
        /\ fresh[t].live
        /\ fresh[t].acc >= 1
        /\ fresh[t].n > fresh[t].acc
        /\ buckets[t].tokens > 0

\* The refill credit a bucket drained at t0 has earned by time T.
CreditSince(t, t0, T) == Min(configs[t].burst_cap, configs[t].rate_limit * (T - t0))

\* C4: after a drain at t0, rejected attempts change nothing: every rejection
\* that follows the drain was of an amount above the credit earned since t0,
\* and of the n attempts of amount p made at the instant "at" after those
\* rejections exactly min(n, credit div p) are accepted.
C4_RejectsKeepCredit ==
    ~clockRegressed =>
        \A t \in TenantIds :
            /\ (drain[t].base # "none" /\ drain[t].rejs > 0) =>
                    CreditSince(t, drain[t].t0, drain[t].lastT) < drain[t].lastA
            /\ drain[t].base = "burst" =>
                    drain[t].acc = Min(drain[t].n,
                                       CreditSince(t, drain[t].t0, drain[t].at) \div drain[t].p)

\* C4 witness: a drain, rejected attempts, then time passed and a burst of which
\* one part was accepted and the rest rejected.
C4_Witness ==
    \E t \in TenantIds :
        /\ ~clockRegressed
        /\ drain[t].base = "burst"
        /\ drain[t].rejs >= 1
        /\ drain[t].at > drain[t].t0
        /\ drain[t].acc >= 1
        /\ drain[t].n > drain[t].acc


\* Ids of the requests in a sequence of requests, and in the heap.
IdsOf(b) == {b[i].request_id : i \in DOMAIN b}
QueuedIds == {request_queue[i].request.request_id : i \in DOMAIN request_queue}

\* C5: a call that is answered not-found (an /infer or a status read naming a
\* tenant that was never registered) leaves the buckets, the lock table, the
\* queue and the three request counters as they were.
C5_UnknownTenantNoMutation ==
    [][(reply' # reply /\ reply'.status = "404") =>
            UNCHANGED <<configs, buckets, locks, request_queue,
                        total_requests, accepted_requests, rejected_requests>>]_vars

\* C6: every request in the queue, in the open batch or in a dispatched batch
\* is one whose consume was accepted.
C6_OnlyAcceptedQueued ==
    \A id \in QueuedIds \cup IdsOf(batch) \cup IdsOf(dispatched) : outcome[id] = "True"

\* C6 witness: a request was rejected and one was not found, while others are
\* queued and dispatched.
C6_Witness ==
    /\ \E id \in DOMAIN outcome : outcome[id] = "False"
    /\ \E id \in DOMAIN outcome : outcome[id] = "ValueError"
    /\ dispatched # <<>>

\* The key the queue is ordered by, and its lexicographic order.
Key(req) == <<0 - req.priority_bid, req.arrival_time>>
KeyLE(k1, k2) == k1[1] < k2[1] \/ (k1[1] = k2[1] /\ k1[2] <= k2[2])

\* C7: at every pop, lead or drain, the entry removed has the smallest key
\* (-priority_bid, arrival_time) of all the entries then in the queue.
C7_PopTakesSmallestKey ==
    \A i \in DOMAIN popped :
        \A e \in popped[i].behind : KeyLE(Key(popped[i].entry.request), Key(e.request))

\* C7 witness: a pop that left behind an entry of lower bid and an entry of the
\* same bid that arrived later, one of them pushed before the popped entry.
C7_Witness ==
    \E i \in DOMAIN popped :
        LET r == popped[i].entry.request
        IN  /\ \E e \in popped[i].behind : e.request.priority_bid < r.priority_bid
            /\ \E e \in popped[i].behind : /\ e.request.priority_bid = r.priority_bid
                                           /\ e.request.arrival_time > r.arrival_time
            /\ \E e \in popped[i].behind : e.request.request_id < r.request_id

C10_AllAdmittedProcessed ==
    <>[](/\ request_queue = <<>>
         /\ \A id \in DOMAIN outcome : outcome[id] = "True" => id \in done)

\* C10 witness: all accepted requests completed, in more than one batch, one of
\* them having waited for queue_lock.
C10_Witness ==
    /\ request_queue = <<>>
    /\ \A id \in DOMAIN outcome : outcome[id] = "True" => id \in done
    /\ Cardinality(done) >= 2
    /\ gpu.total_batches_processed >= 2

\* The batches handed to simulate_inference so far, the one in flight included.
BatchesStarted == gpu.total_batches_processed + (IF pc = "gpu" THEN 1 ELSE 0)

\* C11: the batch handed to the backend holds between 1 and MAX_BATCH requests,
\* whenever the admits come; so the requests dispatched so far number at most
\* MAX_BATCH times the batches started (n requests take at least n / 16 batches).
C11_BatchSizeWithinCap ==
    /\ pc = "gpu" => (1 <= Len(batch) /\ Len(batch) <= MAX_BATCH)
    /\ Len(dispatched) <= MAX_BATCH * BatchesStarted
    /\ gpu.total_requests_processed <= MAX_BATCH * gpu.total_batches_processed

\* C11 witness: a batch of exactly MAX_BATCH requests is with the backend while
\* the queue still holds an entry the drain had to leave.
C11_Witness ==
    /\ pc = "gpu"
    /\ Len(batch) = MAX_BATCH
    /\ request_queue # <<>>

\* C12: for every batch handed to the backend, need is the sum of its prompt
\* tokens, and either the counter plus need was within MAX_KV_CACHE and the
\* batch was added to it without a warning, or the warning was printed and the
\* counter was reset to 0 immediately before the tokens of the batch were added.
C12_FitsOrReset ==
    /\ pc = "gpu" => kvEvent.need = SumTokens(batch)
    /\ kvEvent.need > 0 =>
         \/ /\ kvEvent.before + kvEvent.need <= MAX_KV_CACHE
            /\ ~kvEvent.warned
            /\ gpu.current_kv_cache_tokens = kvEvent.before + kvEvent.need
         \/ /\ kvEvent.before + kvEvent.need > MAX_KV_CACHE
            /\ kvEvent.warned
            /\ gpu.current_kv_cache_tokens = kvEvent.need

\* C12 witness: a batch that fits on its own reached a counter too full for it,
\* and the counter was reset with the warning.
C12_Witness ==
    /\ kvEvent.warned
    /\ kvEvent.before > 0
    /\ kvEvent.need <= MAX_KV_CACHE
    /\ gpu.current_kv_cache_tokens = kvEvent.need

\* C13 as stated: the counter is within [0, MAX_KV_CACHE] in every state.
C13_KvWithinCapacity ==
    /\ 0 <= gpu.current_kv_cache_tokens
    /\ gpu.current_kv_cache_tokens <= MAX_KV_CACHE

\* C13 amended: the counter is never negative, and it is within MAX_KV_CACHE
\* unless the latest batch alone needed more than MAX_KV_CACHE, in which case
\* the counter equals the need of that batch.
C13_KvWithinCapacityOrOneBatch ==
    /\ 0 <= gpu.current_kv_cache_tokens
    /\ \/ gpu.current_kv_cache_tokens <= MAX_KV_CACHE
       \/ /\ kvEvent.need > MAX_KV_CACHE
          /\ gpu.current_kv_cache_tokens = kvEvent.need

\* C13 witness: the counter is exactly full after a batch, and a later batch
\* has been added to it (after the reset).
C13_Witness ==
    /\ kvEvent.before = MAX_KV_CACHE
    /\ kvEvent.need > 0
    /\ gpu.current_kv_cache_tokens <= MAX_KV_CACHE
    /\ gpu.total_batches_processed >= 2

\* C14 as stated: once the worker has exited on shutdown, every request that was
\* popped from the queue has been processed by a completed backend run.
C14_ShutdownCompletesBatch ==
    pc = "cancelled" =>
        \A i \in DOMAIN popped : popped[i].entry.request.request_id \in done

\* C15 as stated: a register_tenant step for a tenant that is already registered
\* answers AlreadyExists and leaves every config and bucket as it was.
C15_ReRegisterRejected ==
    [][(/\ reply' # reply
        /\ reply'.op = "register"
        /\ DOMAIN configs' = DOMAIN configs)
       => (/\ reply'.status = "AlreadyExists"
           /\ configs' = configs
           /\ buckets' = buckets)]_vars

\* A tenant's total in the per-tenant totals st (0 without an entry).
TenantTotal(st, t) == IF t \in DOMAIN st THEN st[t] ELSE 0

\* C16 as stated: a reported index is 1.0 when all k registered tenants have
\* equal output-token totals, and 1/k when exactly one of the k has any.
C16_JainsIndexEndpoints ==
    \A i \in DOMAIN snaps :
        LET s == snaps[i]
            k == Cardinality(DOMAIN configs)
            active == {t \in DOMAIN configs : TenantTotal(s.throughputs, t) > 0}
        IN  /\ (k > 0 /\ active = DOMAIN configs
                  /\ \A t, u \in DOMAIN configs :
                        TenantTotal(s.throughputs, t) = TenantTotal(s.throughputs, u))
                => s.jains_fairness_index = 10000
            /\ (k > 0 /\ Cardinality(active) = 1)
                => s.jains_fairness_index = Round4(1, k)

RECURSIVE CompletedOutput(_, _)
\* The output tokens of tenants T in the completed batches from the i-th on.
CompletedOutput(T, i) ==
    IF i > Len(completed) THEN 0
    ELSE SumOutput(SelectSeq(completed[i], LAMBDA r : r.tenant_id \in T))
         + CompletedOutput(T, i + 1)

RECURSIVE CompletedBusy(_)
\* The estimated latencies of the completed batches from the i-th on, added up.
CompletedBusy(i) ==
    IF i > Len(completed) THEN NoBusyTime
    ELSE [prefill |-> estimate_batch_latency(completed[i]).prefill + CompletedBusy(i + 1).prefill,
          decode |-> estimate_batch_latency(completed[i]).decode + CompletedBusy(i + 1).decode]

\* C17: every snapshot taken since the latest backend run returned reports the
\* output tokens, the busy time and the per-tenant totals of all completed
\* batches, the latest included.
C17_SnapshotReflectsCompleted ==
    \A i \in DOMAIN snaps :
        /\ snaps[i].total_tokens_processed = CompletedOutput(TenantIds, 1)
        /\ snaps[i].total_busy_time = CompletedBusy(1)
        /\ \A t \in TenantIds :
              TenantTotal(snaps[i].throughputs, t) = CompletedOutput({t}, 1)
        /\ snaps[i].active_tenants_tracked =
              Cardinality({t \in TenantIds : CompletedOutput({t}, 1) > 0})
        /\ snaps[i].jains_fairness_index = JainsIndex(snaps[i].throughputs)

\* C17 witness: a snapshot taken after the second batch completed, with both
\* tenants in the totals.
C17_Witness ==
    /\ snaps # <<>>
    /\ Len(completed) >= 2
    /\ snaps[1].total_tokens_processed >= 2
    /\ snaps[1].active_tenants_tracked = 2

\* Throughput a is no greater than throughput b (each is tokens per units of
\* wall time, or per 1e-6 s).
ThroughputLE(a, b) ==
    IF a.eps = b.eps THEN a.num * b.den <= b.num * a.den
    ELSE IF a.eps THEN a.num * 1000000 * b.den <= b.num * UnitsPerSecond
    ELSE a.num * UnitsPerSecond <= b.num * 1000000 * a.den

\* C18: two snapshots with no batch completing between them report the same
\* total tokens, busy time, per-tenant totals and Jain's index, and the second
\* reports a throughput no greater than the first.
C18_SnapshotsAgree ==
    Len(snaps) = 2 =>
        /\ snaps[2].total_tokens_processed = snaps[1].total_tokens_processed
        /\ snaps[2].total_busy_time = snaps[1].total_busy_time
        /\ snaps[2].throughputs = snaps[1].throughputs
        /\ snaps[2].jains_fairness_index = snaps[1].jains_fairness_index
        /\ ThroughputLE(snaps[2].throughput, snaps[1].throughput)

\* C18 witness: two snapshots after a completed batch, the clock having moved
\* between them, so that the second throughput is strictly lower.
C18_Witness ==
    /\ Len(snaps) = 2
    /\ snaps[1].total_tokens_processed > 0
    /\ ~ThroughputLE(snaps[1].throughput, snaps[2].throughput)

\* C1 as stated, for every reachable state: every registered tenant's stored
\* token count lies between 0 and its burst_cap, whatever the clock has done.
C1_TokensWithinBurstAlways ==
    \A t \in DOMAIN buckets :
        /\ 0 <= buckets[t].tokens
        /\ buckets[t].tokens <= configs[t].burst_cap

\* The refilled count of the claim: min(burst_cap, tokens + elapsed * rate_limit),
\* elapsed counted from the stored last_update to the clock reading clk.
Refilled(t, clk) ==
    Min(configs[t].burst_cap,
        buckets[t].tokens + (clk - buckets[t].last_update) * configs[t].rate_limit)

\* C19 as stated: a consume call made at clock reading now leaves the bucket of
\* its tenant at (refilled - amount, now) if refilled >= amount and at
\* (refilled, now) otherwise, and no other bucket changes.
C19_ConsumeStampsRefillTime ==
    [][calls' = calls + 1 =>
         \/ /\ buckets' = buckets
            /\ \E t \in TenantIds : t \notin DOMAIN configs
         \/ \E t \in DOMAIN configs, a \in Amounts :
               buckets' = [buckets EXCEPT ![t] =
                              IF Refilled(t, now) >= a
                              THEN [tokens |-> Refilled(t, now) - a, last_update |-> now]
                              ELSE [tokens |-> Refilled(t, now), last_update |-> now]]]_vars

\* C20 as stated: at a clock reading earlier than a bucket's last_update the
\* refill computes a token count that is not lower than the stored one, and not
\* negative.
C20_NegativeElapsedClamped ==
    \A t \in DOMAIN buckets :
        now < buckets[t].last_update =>
            /\ RefillBucket(t, now).tokens >= buckets[t].tokens
            /\ RefillBucket(t, now).tokens >= 0

\* C21 as stated: the worker is never suspended with queue_lock held, and no
\* /infer handler ever has to wait for queue_lock with its entry unpushed.
C21_NoSleepHoldingLock ==
    /\ ~lockHeld
    /\ \A i \in DOMAIN waiters : waiters[i].task # "infer"

\* C22 as stated: every step that rewrites the bucket of a registered tenant
\* runs under that tenant's mutex (so the mutex exists in _locks by then), and
\* it never leaves more tokens than the refill of the stored state allows: the
\* tokens a completed consume removed are not restored.
C22_BucketWritesSerialised ==
    [][\A t \in DOMAIN buckets :
          (t \in DOMAIN buckets' /\ buckets'[t] # buckets[t]) =>
              /\ t \in locks'
              /\ buckets'[t].tokens <= Refilled(t, now')]_vars

\* The requests of the entries of a heap.
QueuedRequests(h) == {h[i].request : i \in DOMAIN h}

\* C23: the drain leaves the lead in place and appends min(MAX_BATCH - 1, queue
\* length) requests, so that at its end the batch holds MAX_BATCH requests or
\* the queue is empty; the appended requests come in non-decreasing key order,
\* they are the smallest-key entries of the queue at drain time, and the rest
\* of the queue stays queued.
C23_DrainFillsBatch ==
    [][(pc = "window" /\ pc' = "gpu") =>
         LET n == Min(MAX_BATCH - 1, Len(request_queue))
         IN  /\ Len(batch') = 1 + n
             /\ Len(batch') = MAX_BATCH \/ request_queue' = <<>>
             /\ batch'[1] = batch[1]
             /\ \A i \in 2..Len(batch') : \A j \in 2..Len(batch') :
                    i < j => KeyLE(Key(batch'[i]), Key(batch'[j]))
             /\ \A i \in 2..Len(batch') : \A r \in QueuedRequests(request_queue') :
                    KeyLE(Key(batch'[i]), Key(r))
             /\ QueuedRequests(request_queue) =
                    {batch'[i] : i \in 2..Len(batch')} \cup QueuedRequests(request_queue')
             /\ Len(request_queue') = Len(request_queue) - n]_vars

\* C23 witness: a drain filled the batch to MAX_BATCH and left an entry queued;
\* it appended a request of the higher bid ahead of a request of the lower bid
\* that had been received earlier.
C23_Witness ==
    /\ pc = "gpu"
    /\ Len(batch) = MAX_BATCH
    /\ request_queue # <<>>
    /\ \E i \in 2..Len(batch) : \E j \in 2..Len(batch) :
          /\ i < j
          /\ batch[i].priority_bid > batch[j].priority_bid
          /\ batch[i].request_id > batch[j].request_id

\* C24: the simulator's total of output tokens equals the sum of the per-tenant
\* totals, and both equal the output tokens of the requests of the completed
\* batches; every snapshot reports a total and per-tenant totals that agree.
C24_TotalsAgree ==
    /\ gpu.total_tokens_processed = StatSum(tenant_stats, DOMAIN tenant_stats)
    /\ gpu.total_tokens_processed = CompletedOutput(TenantIds, 1)
    /\ \A i \in DOMAIN snaps :
          snaps[i].total_tokens_processed =
              StatSum(snaps[i].throughputs, DOMAIN snaps[i].throughputs)

\* C24 witness: a snapshot taken while the backend runs the next batch, after a
\* batch was published.
C24_Witness ==
    /\ pc = "gpu"
    /\ snaps # <<>>
    /\ snaps[Len(snaps)].total_tokens_processed > 0
    /\ completed # <<>>

\* C25 as stated: after a backend run has failed the dispatcher goes on, so the
\* entries still in the queue are eventually popped and dispatched.
C25_FailureDoesNotStopDispatch == (pc = "failed") ~> (request_queue = <<>>)

\* C26 as stated: after k admission attempts the governor's ring holds the
\* arrivals of the most recent min(k, W) of them.
C26_AttemptsRecorded == Len(arrival_times) = Min(total_requests, WindowSize)

\* All intervals of a history fall in one 1 ms bin (or it has no interval).
OneBin(a) == Cardinality(DOMAIN Bins(Intervals(a, 2))) <= 1

\* C27: the adaptive window is positive and at most base_batch_window, and it
\* equals base_batch_window exactly for the histories of entropy 0: fewer than
\* 2 arrivals, or all intervals in the same 1 ms bin.
C27_WindowWithinBase ==
    \A i \in DOMAIN window :
        /\ 0 < window[i].value
        /\ window[i].value <= base_batch_window
        /\ (window[i].value = base_batch_window)
              <=> (Len(window[i].arrivals) < 2 \/ OneBin(window[i].arrivals))

\* C27 witness: the window was read for a full ring whose intervals fall in
\* more than one bin, and it came out shorter than base_batch_window.
C27_Witness ==
    /\ window # <<>>
    /\ Len(window[1].arrivals) = WindowSize
    /\ ~OneBin(window[1].arrivals)
    /\ window[1].value < base_batch_window

\* The request ids of a sequence of requests, and of the entries of a queue.
RequestIds(b) == {b[i].request_id : i \in DOMAIN b}
EntryIds(h) == {h[i].request.request_id : i \in DOMAIN h}

\* C28 as stated: every request consume accepted is in exactly one place: with
\* its handler waiting to push it, in the queue, in the worker's batch, or among
\* the completed; no request is dispatched twice; and accepted_requests counts
\* the queue, the batch and the processed requests.
C28_RequestConservation ==
    LET W == {waiters[i].entry.request.request_id :
                 i \in {j \in DOMAIN waiters : waiters[j].task = "infer"}}
        Q == EntryIds(request_queue)
        B == RequestIds(batch)
    IN  /\ W \cup Q \cup B \cup done = {id \in DOMAIN outcome : outcome[id] = "True"}
        /\ W \cap Q = {} /\ W \cap B = {} /\ W \cap done = {}
        /\ Q \cap B = {} /\ Q \cap done = {} /\ B \cap done = {}
        /\ Cardinality(Q) = Len(request_queue) /\ Cardinality(B) = Len(batch)
        /\ Cardinality(RequestIds(dispatched)) = Len(dispatched)
        /\ accepted_requests = Len(request_queue) + Len(batch) + gpu.total_requests_processed

====
